---- MODULE Spec2Model ----
(***************************************************************************)
(* Sorting visualisation: the step generators (BubbleSort, SelectionSort, *)
(* InsertionSort in useSortingAlgorithms.ts), the SortingPlayer playback  *)
(* state machine (themeManager.ts) and the sortingVisualization store     *)
(* with its snapshot timeline (stores/sortingVisualization.ts).           *)
(*                                                                         *)
(* Array indices are 0-based as in the source; At(data, k) reads the      *)
(* element at the source index k of a TLA+ sequence.                      *)
(***************************************************************************)
EXTENDS Integers, Sequences, FiniteSets, TLC

VARIABLES
    \* ---- SortingAlgorithm instance (useSortingAlgorithms.ts) ----
    algorithmType,      \* constructor argument
    inputData,          \* constructor argument
    sequenceNumber,     \* SortingAlgorithm.sequenceNumber
    algSteps,           \* SortingAlgorithm.steps
    sortOutcome,        \* "new" | "returned" | "thrown": what sort() did
    dateNow,            \* Date.now() when sort() starts
    tickAt,             \* number of ids issued before the millisecond clock ticks
    \* ---- one closure returned by createStepIdGenerator (useAlgorithmMapping.ts) ----
    counter,            \* the closure's counter
    lastId,             \* the id its latest call returned, <<>> before the first
    keptId,             \* an id one of its earlier calls returned, <<>> if none
    validatorCall,      \* the latest AlgorithmValidator call: [op, arg, result], <<>> if none
    \* ---- SortingPlayer instance (themeManager.ts) ----
    steps,              \* SortingPlayer.steps
    currentStepIndex,   \* SortingPlayer.currentStepIndex (0-based)
    state,              \* SortingPlayer.state
    playTimer,          \* SortingPlayer.playTimer: NoTimer, FiredTimer or the
                        \* position in timers of the timeout it is the handle of
    config,             \* SortingPlayer.config: autoPlay, playbackSpeed, loopMode
    timers,             \* the window's pending setTimeout callbacks, oldest first
    call,               \* the last public call or timer callback and its outcome
    defaultPlayerConfig, \* the module-level defaultPlayerConfig object
    configIsDefault,    \* this.config is the defaultPlayerConfig object itself
    handsOff,           \* the caller has made its last call
    \* ---- sortingVisualization store (stores/sortingVisualization.ts) ----
    selectedAlgorithm,  \* store.selectedAlgorithm
    originalData,       \* store.originalData
    currentData,        \* store.currentData
    storeSteps,         \* store.steps
    playerState,        \* store.playerState
    currentStep,        \* store.currentStep (0-based)
    playbackSpeed,      \* store.playbackSpeed, in tenths
    storeConfig,        \* store.config: playbackSpeed, autoPlay
    timeline,           \* store.timeline: the snapshots, oldest first
    currentSnapshotIndex, \* store.currentSnapshotIndex (0-based, -1 for none)
    isTimeTravel,       \* store.isTimeTravel, the guard set while restoring
    restoring,          \* restoreSnapshot is inside its try block
    bundle,             \* the object the caller got from exportTimeline
    snapshotsMade,      \* number of snapshot ids issued so far
    storeCall           \* the last store action called and its outcome

algVars    == <<algorithmType, inputData, sequenceNumber, algSteps, sortOutcome,
                dateNow, tickAt, counter, lastId, keptId, validatorCall>>
playerVars == <<steps, currentStepIndex, state, playTimer, config, timers, call,
                defaultPlayerConfig, configIsDefault, handsOff>>
storeVars  == <<selectedAlgorithm, originalData, currentData, storeSteps,
                playerState, currentStep, playbackSpeed, storeConfig, timeline,
                currentSnapshotIndex, isTimeTravel, restoring, bundle,
                snapshotsMade, storeCall>>
vars       == <<algVars, playerVars, storeVars>>

----------------------------------------------------------------------------
(* Bounds of the model *)

MaxLen    == 3      \* longest input array
MaxVal    == 3      \* input values are 1..MaxVal
MaxSteps  == 3      \* longest step list handed to loadSteps
MaxTimers == 2      \* most setTimeout callbacks pending at once
maxSnapshots == 2   \* store.maxSnapshots, 100 in the source: the model keeps
                    \* the timeline short enough to overflow
MaxSaved  == 3      \* most snapshots saved in one run of the store

----------------------------------------------------------------------------
(* Step generators *)

Algorithms == {"bubble-sort", "selection-sort", "insertion-sort"}

At(data, k) == data[k + 1]

Put(data, k, v) == [data EXCEPT ![k + 1] = v]

\* a swap without the temporary: data[b] is read after data[a] was overwritten
SwapWithoutTemp(data, a, b) == Put(Put(data, a, At(data, b)), b, At(data, b))

\* const temp = data[a]; data[a] = data[b]; data[b] = temp
Swap(data, a, b) == Put(Put(data, a, At(data, b)), b, At(data, a))

Region(s, e) == [start |-> s, end |-> e]

\* ArrayState literal; None stands for an absent comparisonPair / swapPair
None == <<>>

ArrayState(data, hl, cmp, swp, regions) ==
    [data |-> data, highlightedIndices |-> hl, comparisonPair |-> cmp,
     swapPair |-> swp, sortedRegions |-> regions]

\* the characters of a number written in a radix up to 36
Digits ==
    <<"0", "1", "2", "3", "4", "5", "6", "7", "8", "9", "a", "b", "c", "d", "e",
      "f", "g", "h", "i", "j", "k", "l", "m", "n", "o", "p", "q", "r", "s", "t",
      "u", "v", "w", "x", "y", "z">>

\* Number.prototype.toString(radix), as the sequence of its characters
RECURSIVE toString(_, _)
toString(n, radix) ==
    IF n < radix THEN <<Digits[n + 1]>>
    ELSE Append(toString(n \div radix, radix), Digits[(n % radix) + 1])

\* String.prototype.padStart(targetLength, '0'): never shortens
RECURSIVE padStart(_, _)
padStart(str, targetLength) ==
    IF Len(str) >= targetLength THEN str
    ELSE padStart(<<"0">> \o str, targetLength)

\* algorithmType.replace('-', '_').toUpperCase()
prefix(type) ==
    CASE type = "bubble-sort"    -> "BUBBLE_SORT"
      [] type = "selection-sort" -> "SELECTION_SORT"
      [] type = "insertion-sort" -> "INSERTION_SORT"

\* createStepIdGenerator whose ids leave the counter out
createStepIdGeneratorOfTime(type, n, timestamp) ==
    <<prefix(type), "_">> \o toString(timestamp, 36)

\* the id the closure of createStepIdGenerator returns on the call that takes
\* its counter to n while Date.now() is timestamp
createStepIdGenerator(type, n, timestamp) ==
    <<prefix(type), "_">> \o toString(timestamp, 36) \o <<"_">>
        \o padStart(toString(n, 16), 4)

\* this.stepIdGenerator() inside sort(): the clock ticks once after tick ids
stepIdGenerator(type, n, now, tick) ==
    createStepIdGenerator(type, n, IF n > tick THEN now + 1 ELSE now)

\* SortingAlgorithm.createStep: the id counter and sequenceNumber advance
\* together, both start at 0 on a fresh instance
createStep(a, arrayState, opType, opTime) ==
    [stepId         |-> stepIdGenerator(a.algorithmType, a.sequenceNumber + 1,
                                        a.now, a.tick),
     sequenceNumber |-> a.sequenceNumber + 1,
     arrayState     |-> arrayState,
     operation      |-> [type |-> opType, time |-> opTime]]

\* this.steps.push(this.createStep(...))
Push(a, arrayState, opType, opTime) ==
    [a EXCEPT !.steps = Append(@, createStep(a, arrayState, opType, opTime)),
              !.sequenceNumber = @ + 1]

\* a fresh instance; data is sort()'s local copy of inputData
NewAlgorithm(type, input, now, tick) ==
    [algorithmType |-> type, inputData |-> input, sequenceNumber |-> 0,
     steps |-> <<>>, data |-> input, now |-> now, tick |-> tick,
     hasSwapped |-> FALSE, minIndex |-> 0]

\* ---- BubbleSort.sort ----

\* the sorted tail with its end one past the last element
BubbleRegionsPastEnd(n, i) == IF i > 0 THEN <<Region(n - i, n)>> ELSE <<>>

BubbleRegions(n, i) == IF i > 0 THEN <<Region(n - i, n - 1)>> ELSE <<>>

\* the inner loop with >= in place of >: equal neighbours are swapped
RECURSIVE BubbleInnerSwapsEqual(_, _, _)
BubbleInnerSwapsEqual(a, i, j) ==
    LET n == Len(a.data) IN
    IF j < n - i - 1
    THEN LET a1 == Push(a, ArrayState(a.data, <<j, j + 1>>, <<j, j + 1>>, None,
                                      BubbleRegions(n, i)), "compare", "O(1)")
         IN  IF At(a.data, j) >= At(a.data, j + 1)
             THEN LET a2 == Push(a1, ArrayState(a.data, <<j, j + 1>>, None,
                                     <<j, j + 1>>, BubbleRegions(n, i)),
                                 "swap", "O(1)")
                  IN  BubbleInnerSwapsEqual([a2 EXCEPT !.data = Swap(@, j, j + 1),
                                                       !.hasSwapped = TRUE],
                                            i, j + 1)
             ELSE BubbleInnerSwapsEqual(a1, i, j + 1)
    ELSE a

RECURSIVE BubbleInner(_, _, _)
BubbleInner(a, i, j) ==
    LET n == Len(a.data) IN
    IF j < n - i - 1
    THEN LET a1 == Push(a, ArrayState(a.data, <<j, j + 1>>, <<j, j + 1>>, None,
                                      BubbleRegions(n, i)), "compare", "O(1)")
         IN  IF At(a.data, j) > At(a.data, j + 1)
             THEN LET a2 == Push(a1, ArrayState(a.data, <<j, j + 1>>, None,
                                     <<j, j + 1>>, BubbleRegions(n, i)),
                                 "swap", "O(1)")
                  IN  BubbleInner([a2 EXCEPT !.data = Swap(@, j, j + 1),
                                             !.hasSwapped = TRUE], i, j + 1)
             ELSE BubbleInner(a1, i, j + 1)
    ELSE a

\* the outer loop without the early exit
RECURSIVE BubbleOuterAllPasses(_, _)
BubbleOuterAllPasses(a, i) ==
    LET n == Len(a.data) IN
    IF i < n - 1
    THEN LET a1 == BubbleInner([a EXCEPT !.hasSwapped = FALSE], i, 0)
             a2 == Push(a1, ArrayState(a1.data, <<n - i - 1>>, None, None,
                                       <<Region(n - i - 1, n - 1)>>),
                        "compare", "O(n)")
         IN  BubbleOuterAllPasses(a2, i + 1)
    ELSE a

RECURSIVE BubbleOuter(_, _)
BubbleOuter(a, i) ==
    LET n == Len(a.data) IN
    IF i < n - 1
    THEN LET a1 == BubbleInner([a EXCEPT !.hasSwapped = FALSE], i, 0)
             a2 == Push(a1, ArrayState(a1.data, <<n - i - 1>>, None, None,
                                       <<Region(n - i - 1, n - 1)>>),
                        "compare", "O(n)")
         IN  IF ~a1.hasSwapped THEN a2 ELSE BubbleOuter(a2, i + 1)
    ELSE a

BubbleSortSort(a) ==
    LET n  == Len(a.data)
        a1 == BubbleOuter(a, 0)
    IN  Push(a1, ArrayState(a1.data, <<>>, None, None, <<Region(0, n - 1)>>),
             "compare", "O(n2)")

\* ---- SelectionSort.sort ----

SelectionRegions(i) == IF i > 0 THEN <<Region(0, i - 1)>> ELSE <<>>

RECURSIVE SelectionInner(_, _, _)
SelectionInner(a, i, j) ==
    LET n == Len(a.data) IN
    IF j < n
    THEN LET a1 == Push(a, ArrayState(a.data, <<a.minIndex, j>>, <<a.minIndex, j>>,
                                      None, SelectionRegions(i)),
                        "compare", "O(1)")
         IN  IF At(a.data, j) < At(a.data, a.minIndex)
             THEN SelectionInner(
                      Push([a1 EXCEPT !.minIndex = j],
                           ArrayState(a.data, <<j>>, None, None, SelectionRegions(i)),
                           "compare", "O(1)"), i, j + 1)
             ELSE SelectionInner(a1, i, j + 1)
    ELSE a

RECURSIVE SelectionOuter(_, _)
SelectionOuter(a, i) ==
    LET n == Len(a.data) IN
    IF i < n - 1
    THEN LET a1 == SelectionInner([a EXCEPT !.minIndex = i], i, i + 1)
             a2 == IF a1.minIndex # i
                   THEN [Push(a1, ArrayState(a1.data, <<i, a1.minIndex>>, None,
                                             <<i, a1.minIndex>>, SelectionRegions(i)),
                              "swap", "O(1)")
                         EXCEPT !.data = Swap(@, i, a1.minIndex)]
                   ELSE a1
             a3 == Push(a2, ArrayState(a2.data, <<i>>, None, None, <<Region(0, i)>>),
                        "compare", "O(n)")
         IN  SelectionOuter(a3, i + 1)
    ELSE a

SelectionSortSort(a) ==
    LET n  == Len(a.data)
        a1 == SelectionOuter(a, 0)
    IN  Push(a1, ArrayState(a1.data, <<>>, None, None, <<Region(0, n - 1)>>),
             "compare", "O(n2)")

\* ---- InsertionSort.sort ----

\* the while loop with the shift copying to the left: data[j] = data[j + 1]
RECURSIVE InsertionShiftLeft(_, _, _, _)
InsertionShiftLeft(a, i, j, key) ==
    IF j >= 0 /\ At(a.data, j) > key
    THEN LET a1 == Push(a, ArrayState(a.data, <<j, j + 1>>, <<j, j + 1>>, None,
                                      <<Region(0, i)>>), "compare", "O(1)")
             a2 == [a1 EXCEPT !.data = Put(@, j, At(a.data, j + 1))]
             a3 == Push(a2, ArrayState(a2.data, <<j + 1>>, None, None,
                                       <<Region(0, i)>>), "insert", "O(1)")
         IN  InsertionShiftLeft(a3, i, j - 1, key)
    ELSE [a |-> a, j |-> j]

\* the while loop; returns the instance and the final j
RECURSIVE InsertionShift(_, _, _, _)
InsertionShift(a, i, j, key) ==
    IF j >= 0 /\ At(a.data, j) > key
    THEN LET a1 == Push(a, ArrayState(a.data, <<j, j + 1>>, <<j, j + 1>>, None,
                                      <<Region(0, i)>>), "compare", "O(1)")
             a2 == [a1 EXCEPT !.data = Put(@, j + 1, At(a.data, j))]
             a3 == Push(a2, ArrayState(a2.data, <<j + 1>>, None, None,
                                       <<Region(0, i)>>), "insert", "O(1)")
         IN  InsertionShift(a3, i, j - 1, key)
    ELSE [a |-> a, j |-> j]

RECURSIVE InsertionOuter(_, _)
InsertionOuter(a, i) ==
    LET n == Len(a.data) IN
    IF i < n
    THEN LET key == At(a.data, i)
             a1  == Push(a, ArrayState(a.data, <<i>>, None, None,
                                       <<Region(0, i - 1)>>), "compare", "O(1)")
             r   == InsertionShift(a1, i, i - 1, key)
             a2  == [r.a EXCEPT !.data = Put(@, r.j + 1, key)]
             a3  == Push(a2, ArrayState(a2.data, <<r.j + 1>>, None, None,
                                        <<Region(0, i)>>), "insert", "O(1)")
             a4  == Push(a3, ArrayState(a3.data, <<>>, None, None,
                                        <<Region(0, i)>>), "compare", "O(i)")
         IN  InsertionOuter(a4, i + 1)
    ELSE a

InsertionSortSort(a) ==
    LET n  == Len(a.data)
        a1 == InsertionOuter(a, 1)
    IN  Push(a1, ArrayState(a1.data, <<>>, None, None, <<Region(0, n - 1)>>),
             "compare", "O(n2)")

----------------------------------------------------------------------------
(* sort() on a fresh instance *)

Inputs == UNION {[1..n -> 1..MaxVal] : n \in 0..MaxLen}

Instance == NewAlgorithm(algorithmType, inputData, dateNow, tickAt)

\* a sort() that records a step for the empty array before it throws
SortThrowsAfterStep ==
    /\ sortOutcome = "new"
    /\ Len(inputData) = 0
    /\ sortOutcome' = "thrown"
    /\ algSteps' = Push(Instance, ArrayState(<<>>, <<>>, None, None, <<>>),
                        "complete", "O(1)").steps
    /\ sequenceNumber' = 1
    /\ UNCHANGED <<algorithmType, inputData, dateNow, tickAt, counter, lastId,
                   keptId, validatorCall, playerVars, storeVars>>

\* if (n === 0) throw new Error(...), before any step is created
SortThrows ==
    /\ sortOutcome = "new"
    /\ Len(inputData) = 0
    /\ sortOutcome' = "thrown"
    /\ UNCHANGED <<algorithmType, inputData, sequenceNumber, algSteps, dateNow,
                   tickAt, counter, lastId, keptId, validatorCall, playerVars,
                   storeVars>>

Returned(a) ==
    /\ sortOutcome' = "returned"
    /\ algSteps' = a.steps
    /\ sequenceNumber' = a.sequenceNumber
    /\ UNCHANGED <<algorithmType, inputData, dateNow, tickAt, counter, lastId,
                   keptId, validatorCall, playerVars, storeVars>>

BubbleSortCall ==
    /\ sortOutcome = "new"
    /\ algorithmType = "bubble-sort"
    /\ Len(inputData) # 0
    /\ Returned(BubbleSortSort(Instance))

SelectionSortCall ==
    /\ sortOutcome = "new"
    /\ algorithmType = "selection-sort"
    /\ Len(inputData) # 0
    /\ Returned(SelectionSortSort(Instance))

InsertionSortCall ==
    /\ sortOutcome = "new"
    /\ algorithmType = "insertion-sort"
    /\ Len(inputData) # 0
    /\ Returned(InsertionSortSort(Instance))

\* one call of the closure returned by createStepIdGenerator(algorithmType);
\* Date.now() is whatever the clock shows, and the caller may keep the id the
\* call before returned
MaxCalls == 17

Timestamps == {0, 1, 36}

StepIdGeneratorCall ==
    /\ sortOutcome = "idle"
    /\ counter < MaxCalls
    /\ \E timestamp \in Timestamps, keep \in BOOLEAN :
           /\ counter' = counter + 1
           /\ lastId' = createStepIdGenerator(algorithmType, counter + 1,
                                              timestamp)
           /\ keptId' = IF keep THEN lastId ELSE keptId
    /\ UNCHANGED <<algorithmType, inputData, sequenceNumber, algSteps,
                   sortOutcome, dateNow, tickAt, validatorCall, playerVars,
                   storeVars>>

\* a validator that compares each sequenceNumber with the one before it
validateStepSequenceRelative(list) ==
    IF Len(list) = 0 THEN FALSE
    ELSE IF \E i \in 2..Len(list) :
                list[i].sequenceNumber # list[i - 1].sequenceNumber + 1
         THEN FALSE
    ELSE LET stepIds == {list[i].stepId : i \in DOMAIN list}
         IN  IF Cardinality(stepIds) # Len(list) THEN FALSE ELSE TRUE

\* AlgorithmValidator.validateStepSequence; the loop index i is 0-based in
\* the source and expects i + 1, which is the 1-based position here
validateStepSequence(list) ==
    IF Len(list) = 0 THEN FALSE
    ELSE IF \E i \in 1..Len(list) : list[i].sequenceNumber # i THEN FALSE
    ELSE LET stepIds == {list[i].stepId : i \in DOMAIN list}
         IN  IF Cardinality(stepIds) # Len(list) THEN FALSE ELSE TRUE

\* the steps handed to the validator: any sequenceNumber, ids of one closure
ValidatorSteps ==
    [sequenceNumber : 1..MaxSteps,
     stepId : {createStepIdGenerator("bubble-sort", n, 0) : n \in 1..MaxSteps}]

ValidatorLists == UNION {[1..n -> ValidatorSteps] : n \in 0..MaxSteps}

\* a static method without state: one call is followed per behaviour
ValidateStepSequence ==
    /\ sortOutcome = "idle"
    /\ validatorCall = <<>>
    /\ \E list \in ValidatorLists :
           validatorCall' = [op |-> "validateStepSequence", arg |-> <<list>>,
                             result |-> validateStepSequence(list)]
    /\ UNCHANGED <<algorithmType, inputData, sequenceNumber, algSteps,
                   sortOutcome, dateNow, tickAt, counter, lastId, keptId,
                   playerVars, storeVars>>

----------------------------------------------------------------------------
(* SortingPlayer *)

NoTimer == 0                \* playTimer = null
FiredTimer == -1            \* playTimer is the handle of a timeout that already ran
SpeedUnit == 10             \* playbackSpeed is held in tenths: 10 is 1.0x
DefaultPlaybackSpeed == 10  \* defaultPlayerConfig.playbackSpeed = 1.0
MinSpeed == 1               \* 0.1
MaxSpeed == 50              \* 5.0
baseDelay == 600
LoopDelay == 1000

\* the player as one value, so that methods can call each other
Self ==
    [steps |-> steps, currentStepIndex |-> currentStepIndex, state |-> state,
     playTimer |-> playTimer, config |-> config, timers |-> timers]

\* window.setTimeout(callback, delay): the new timeout is the last pending one
setTimeout(p, kind, delay) ==
    [p EXCEPT !.timers = Append(@, [kind |-> kind, delay |-> delay])]

\* the timeout at position k leaves the pending list; the handle in playTimer
\* keeps naming the same timeout
Without(p, k, handleBecomes) ==
    [p EXCEPT !.timers = SubSeq(@, 1, k - 1) \o SubSeq(@, k + 1, Len(@)),
              !.playTimer = IF @ = k THEN handleBecomes
                            ELSE IF @ > k THEN @ - 1 ELSE @]

\* clearTimeout(handle): nothing happens for a timeout that already ran
clearTimeout(p, handle) ==
    IF handle \in 1..Len(p.timers) THEN Without(p, handle, FiredTimer) ELSE p

setState(p, newState) == [p EXCEPT !.state = newState]

clearTimer(p) ==
    IF p.playTimer # NoTimer
    THEN [clearTimeout(p, p.playTimer) EXCEPT !.playTimer = NoTimer]
    ELSE p

scheduleNextStep(p) ==
    IF p.state # "playing" THEN p
    ELSE LET delay == (baseDelay * SpeedUnit) \div p.config.playbackSpeed
             p1    == setTimeout(p, "advance", delay)
         IN  [p1 EXCEPT !.playTimer = Len(p1.timers)]

reset(p) == setState([p EXCEPT !.currentStepIndex = 0], "idle")

play(p) ==
    IF p.state = "playing" THEN p
    ELSE LET p1 == IF p.state = "completed" /\ p.config.loopMode
                   THEN reset(p) ELSE p
         IN  scheduleNextStep(setState(p1, "playing"))

pause(p) ==
    IF p.state # "playing" THEN p
    ELSE clearTimer(setState(p, "paused"))

stop(p) == reset(pause(p))

complete(p) ==
    LET p1 == setState(clearTimer(p), "completed")
    IN  IF p1.config.loopMode
        THEN setTimeout(p1, "restart", LoopDelay)
        ELSE p1

\* nextStep with the bound test off by one
nextStepPastEnd(p) ==
    IF p.currentStepIndex <= Len(p.steps) - 1
    THEN [p EXCEPT !.currentStepIndex = @ + 1]
    ELSE complete(p)

nextStep(p) ==
    IF p.currentStepIndex < Len(p.steps) - 1
    THEN [p EXCEPT !.currentStepIndex = @ + 1]
    ELSE complete(p)

\* previousStep without the test for the first step
previousStepBelowStart(p) ==
    [p EXCEPT !.currentStepIndex = @ - 1]

previousStep(p) ==
    IF p.currentStepIndex > 0
    THEN [p EXCEPT !.currentStepIndex = @ - 1]
    ELSE p

\* the range test with the upper limit off by one
jumpToStepThrowsPastEnd(p, stepIndex) == stepIndex < 0 \/ stepIndex > Len(p.steps)

jumpToStepThrows(p, stepIndex) == stepIndex < 0 \/ stepIndex >= Len(p.steps)

jumpToStep(p, stepIndex) == [p EXCEPT !.currentStepIndex = stepIndex]

\* the range test with the upper limit off by one tenth
setPlaybackSpeedThrowsAbove(speed) == speed < MinSpeed \/ speed > MaxSpeed + 1

setPlaybackSpeedThrows(speed) == speed < MinSpeed \/ speed > MaxSpeed

\* setPlaybackSpeed that schedules without cancelling first
setPlaybackSpeedKeepsTimer(p, speed) ==
    LET p1 == [p EXCEPT !.config.playbackSpeed = speed]
    IN  IF p1.state = "playing" THEN scheduleNextStep(p1) ELSE p1

setPlaybackSpeed(p, speed) ==
    LET p1 == [p EXCEPT !.config.playbackSpeed = speed]
    IN  IF p1.state = "playing" THEN scheduleNextStep(clearTimer(p1)) ELSE p1

setLoopMode(p, enabled) == [p EXCEPT !.config.loopMode = enabled]

loadStepsThrows(list) == Len(list) = 0

loadSteps(p, list) ==
    LET p1 == setState([p EXCEPT !.steps = list, !.currentStepIndex = 0], "idle")
    IN  IF p1.config.autoPlay THEN play(p1) ELSE p1

\* cleanup(); the visualization manager it releases is not part of the model
cleanup(p) == setState([clearTimer(p) EXCEPT !.steps = <<>>], "idle")

\* the callback scheduleNextStep hands to setTimeout
AdvanceCallback(p) ==
    LET p1 == nextStep(p)
    IN  IF p1.state = "playing" THEN scheduleNextStep(p1) ELSE p1

\* the callback complete() hands to setTimeout
RestartCallback(p) == play(reset(p))

----------------------------------------------------------------------------
(* Calls on the player and timer callbacks *)

\* speeds a caller may ask for, valid and out of range, in tenths
Speeds == {MinSpeed - 1, DefaultPlaybackSpeed, 2 * SpeedUnit, MaxSpeed + 1}

\* step lists a caller may hand to loadSteps: steps are told apart by the
\* list they come from and their position in it
StepList(tag, n) == [k \in 1..n |-> <<tag, k>>]

StepLists == {StepList(tag, n) : tag \in {"a", "b"}, n \in 0..MaxSteps}

\* the call returned (or the callback ran): the player becomes p, unless
\* that would take more pending timers than the model holds
Becomes(p) ==
    /\ Len(p.timers) <= MaxTimers
    /\ steps' = p.steps
    /\ currentStepIndex' = p.currentStepIndex
    /\ state' = p.state
    /\ playTimer' = p.playTimer
    /\ config' = p.config
    /\ timers' = p.timers
    /\ defaultPlayerConfig' = IF configIsDefault THEN p.config
                              ELSE defaultPlayerConfig
    /\ UNCHANGED <<configIsDefault, handsOff>>
    /\ UNCHANGED <<algVars, storeVars>>

Commit(p, op, arg) ==
    /\ call' = [op |-> op, arg |-> arg, result |-> "ok"]
    /\ Becomes(p)

\* the call threw before changing anything
Throw(op, arg) ==
    /\ call' = [op |-> op, arg |-> arg, result |-> "throw"]
    /\ UNCHANGED <<steps, currentStepIndex, state, playTimer, config, timers>>
    /\ UNCHANGED <<defaultPlayerConfig, configIsDefault, handsOff>>
    /\ UNCHANGED <<algVars, storeVars>>

LoadSteps ==
    \E list \in StepLists :
        IF loadStepsThrows(list)
        THEN Throw("loadSteps", <<list>>)
        ELSE Commit(loadSteps(Self, list), "loadSteps", <<list>>)

Play ==
    /\ call' = [op |-> "play", arg |-> <<>>, result |-> "ok"]
    /\ Becomes(play(Self))

Pause ==
    /\ call' = [op |-> "pause", arg |-> <<>>, result |-> "ok"]
    /\ Becomes(pause(Self))

Stop ==
    /\ call' = [op |-> "stop", arg |-> <<>>, result |-> "ok"]
    /\ Becomes(stop(Self))

Reset ==
    /\ call' = [op |-> "reset", arg |-> <<>>, result |-> "ok"]
    /\ Becomes(reset(Self))

NextStep ==
    /\ call' = [op |-> "nextStep", arg |-> <<>>, result |-> "ok"]
    /\ Becomes(nextStep(Self))

PreviousStep ==
    /\ call' = [op |-> "previousStep", arg |-> <<>>, result |-> "ok"]
    /\ Becomes(previousStep(Self))

JumpToStep ==
    \E stepIndex \in -1..MaxSteps :
        IF jumpToStepThrows(Self, stepIndex)
        THEN Throw("jumpToStep", <<stepIndex>>)
        ELSE Commit(jumpToStep(Self, stepIndex), "jumpToStep", <<stepIndex>>)

SetPlaybackSpeed ==
    \E speed \in Speeds :
        IF setPlaybackSpeedThrows(speed)
        THEN Throw("setPlaybackSpeed", <<speed>>)
        ELSE Commit(setPlaybackSpeed(Self, speed), "setPlaybackSpeed", <<speed>>)

\* speeds at and just outside the limits of the accepted range
LimitSpeeds ==
    {MinSpeed - 1, MinSpeed, DefaultPlaybackSpeed, 2 * SpeedUnit, MaxSpeed,
     MaxSpeed + 1}

SetPlaybackSpeedAtLimits ==
    \E speed \in LimitSpeeds :
        IF setPlaybackSpeedThrows(speed)
        THEN Throw("setPlaybackSpeed", <<speed>>)
        ELSE Commit(setPlaybackSpeed(Self, speed), "setPlaybackSpeed", <<speed>>)

SetLoopMode ==
    \E enabled \in BOOLEAN :
        /\ call' = [op |-> "setLoopMode", arg |-> <<enabled>>, result |-> "ok"]
        /\ Becomes(setLoopMode(Self, enabled))

Cleanup ==
    /\ call' = [op |-> "cleanup", arg |-> <<>>, result |-> "ok"]
    /\ Becomes(cleanup(Self))

\* the timeout at position k can be the next to come due: no older pending
\* timeout has a delay as short or shorter
Due(k) == \A j \in 1..(k - 1) : timers[j].delay > timers[k].delay

\* a pending advance comes due
AdvanceFires ==
    \E k \in 1..Len(timers) :
        /\ timers[k].kind = "advance"
        /\ Due(k)
        /\ call' = [op |-> "advance", arg |-> <<>>, result |-> "ok"]
        /\ Becomes(AdvanceCallback(Without(Self, k, FiredTimer)))

\* the loop-mode restart scheduled by complete() comes due
RestartFires ==
    \E k \in 1..Len(timers) :
        /\ timers[k].kind = "restart"
        /\ Due(k)
        /\ call' = [op |-> "restart", arg |-> <<>>, result |-> "ok"]
        /\ Becomes(RestartCallback(Without(Self, k, FiredTimer)))

\* the caller makes no call after the play() that just returned, on a player
\* with steps loaded whose loop mode is off
Leave ==
    /\ ~handsOff
    /\ call.op = "play"
    /\ Len(steps) > 0
    /\ ~config.loopMode
    /\ handsOff' = TRUE
    /\ UNCHANGED <<steps, currentStepIndex, state, playTimer, config, timers,
                   call, defaultPlayerConfig, configIsDefault>>
    /\ UNCHANGED <<algVars, storeVars>>

----------------------------------------------------------------------------
(* sortingVisualization store *)

\* the data the store starts with; the source's seven numbers are cut to
\* the first inversion
defaultData == <<2, 1>>

\* the store as one value, so that one action can be applied to the result
\* of another
StoreSelf ==
    [selectedAlgorithm |-> selectedAlgorithm, originalData |-> originalData,
     currentData |-> currentData, steps |-> storeSteps,
     playerState |-> playerState, currentStep |-> currentStep,
     playbackSpeed |-> playbackSpeed, config |-> storeConfig,
     timeline |-> timeline, currentSnapshotIndex |-> currentSnapshotIndex,
     isTimeTravel |-> isTimeTravel, restoring |-> restoring,
     bundle |-> bundle, snapshotsMade |-> snapshotsMade]

totalSteps(s) == Len(s.steps)

canStart(s) == s.playerState = "idle" /\ Len(s.currentData) > 0

canNavigate(s) == s.playerState # "playing" /\ totalSteps(s) > 0

\* SortingAlgorithmFactory.create(type, input).sort()
generateSteps(type, input) ==
    LET a == NewAlgorithm(type, input, dateNow, tickAt)
    IN  CASE type = "bubble-sort"    -> BubbleSortSort(a).steps
          [] type = "selection-sort" -> SelectionSortSort(a).steps
          [] type = "insertion-sort" -> InsertionSortSort(a).steps

\* the state a snapshot captures: copies of the live fields
Captured(s) ==
    [currentData |-> s.currentData, currentStep |-> s.currentStep,
     playerState |-> s.playerState, selectedAlgorithm |-> s.selectedAlgorithm,
     steps |-> s.steps]

\* saveSnapshot that drops the newest entry on overflow
saveSnapshotDropsNewest(s, description) ==
    IF s.isTimeTravel THEN s
    ELSE LET snapshot == [id |-> s.snapshotsMade + 1, description |-> description,
                          state |-> Captured(s)]
             s1 == [s EXCEPT !.timeline = Append(@, snapshot),
                             !.currentSnapshotIndex = Len(s.timeline),
                             !.snapshotsMade = @ + 1]
         IN  IF Len(s1.timeline) > maxSnapshots
             THEN [s1 EXCEPT !.timeline = SubSeq(@, 1, Len(@) - 1),
                             !.currentSnapshotIndex = @ - 1]
             ELSE s1

\* saveSnapshot: ids (time and a random suffix in the source) are told apart
\* by the order of issue; the time stamp is left out; description and
\* details are kept as a tuple
saveSnapshot(s, description) ==
    IF s.isTimeTravel THEN s
    ELSE LET snapshot == [id |-> s.snapshotsMade + 1, description |-> description,
                          state |-> Captured(s)]
             s1 == [s EXCEPT !.timeline = Append(@, snapshot),
                             !.currentSnapshotIndex = Len(s.timeline),
                             !.snapshotsMade = @ + 1]
         IN  IF Len(s1.timeline) > maxSnapshots
             THEN [s1 EXCEPT !.timeline = Tail(@),
                             !.currentSnapshotIndex = @ - 1]
             ELSE s1

\* resetPlayback that leaves the displayed data alone
resetPlaybackKeepsData(s) ==
    [s EXCEPT !.playerState = "idle", !.currentStep = 0, !.steps = <<>>]

resetPlayback(s) ==
    [s EXCEPT !.playerState = "idle", !.currentStep = 0, !.steps = <<>>,
              !.currentData = s.originalData]

setDataThrows(s) == s.playerState = "playing"

setData(s, data) ==
    saveSnapshot(resetPlayback([s EXCEPT !.originalData = data,
                                         !.currentData = data]),
                 <<"setData", data>>)

selectAlgorithmThrows(s) == s.playerState = "playing"

selectAlgorithm(s, algorithm) ==
    saveSnapshot(resetPlayback([s EXCEPT !.selectedAlgorithm = algorithm]),
                 <<"selectAlgorithm", algorithm>>)

startSortingThrows(s) == ~canStart(s) \/ Len(s.originalData) = 0

startSorting(s) ==
    saveSnapshot([s EXCEPT !.steps = generateSteps(s.selectedAlgorithm,
                                                   s.originalData),
                           !.currentStep = 0,
                           !.currentData = s.originalData,
                           !.playerState = "playing"],
                 <<"startSorting", s.selectedAlgorithm>>)

pausePlayback(s) ==
    IF s.playerState = "playing"
    THEN saveSnapshot([s EXCEPT !.playerState = "paused"],
                      <<"pausePlayback", s.currentStep + 1>>)
    ELSE s

\* resumePlayback that saves no snapshot
resumePlaybackUnsaved(s) ==
    IF s.playerState = "paused"
    THEN [s EXCEPT !.playerState = "playing"]
    ELSE s

resumePlayback(s) ==
    IF s.playerState = "paused"
    THEN saveSnapshot([s EXCEPT !.playerState = "playing"],
                      <<"resumePlayback", s.currentStep + 1>>)
    ELSE s

stopPlayback(s) ==
    saveSnapshot([s EXCEPT !.playerState = "idle", !.currentStep = 0,
                           !.currentData = s.originalData],
                 <<"stopPlayback">>)

storeJumpToStepThrows(s, stepIndex) ==
    \/ ~canNavigate(s)
    \/ stepIndex < 0
    \/ stepIndex >= totalSteps(s)

storeJumpToStep(s, stepIndex) ==
    saveSnapshot([s EXCEPT !.currentStep = stepIndex,
                           !.currentData = At(s.steps, stepIndex).arrayState.data],
                 <<"jumpToStep", stepIndex + 1>>)

\* nextStep and previousStep go through jumpToStep, which may throw
storeNextStepThrows(s) ==
    /\ s.currentStep < totalSteps(s) - 1
    /\ storeJumpToStepThrows(s, s.currentStep + 1)

storeNextStep(s) ==
    IF s.currentStep < totalSteps(s) - 1
    THEN storeJumpToStep(s, s.currentStep + 1)
    ELSE s

storePreviousStepThrows(s) ==
    /\ s.currentStep > 0
    /\ storeJumpToStepThrows(s, s.currentStep - 1)

storePreviousStep(s) ==
    IF s.currentStep > 0
    THEN storeJumpToStep(s, s.currentStep - 1)
    ELSE s

Max(a, b) == IF a >= b THEN a ELSE b

Min(a, b) == IF a <= b THEN a ELSE b

updatePlaybackSpeed(s, speed) ==
    LET clamped == Max(MinSpeed, Min(MaxSpeed, speed))
    IN  saveSnapshot([s EXCEPT !.playbackSpeed = clamped,
                               !.config.playbackSpeed = clamped],
                     <<"updatePlaybackSpeed", clamped>>)

\* { ...config, ...newConfig }
Merge(old, new) ==
    [k \in DOMAIN old |-> IF k \in DOMAIN new THEN new[k] ELSE old[k]]

updateConfig(s, newConfig) ==
    saveSnapshot([s EXCEPT !.config = Merge(@, newConfig)], <<"updateConfig">>)

\* timeline.findIndex(s => s.id === snapshotId), 0-based, -1 when absent
findIndex(tl, snapshotId) ==
    IF \E k \in DOMAIN tl : tl[k].id = snapshotId
    THEN (CHOOSE k \in DOMAIN tl :
              /\ tl[k].id = snapshotId
              /\ \A j \in 1..(k - 1) : tl[j].id # snapshotId) - 1
    ELSE -1

restoreSnapshotThrows(s, snapshotId) == findIndex(s.timeline, snapshotId) = -1

\* the try block of a restore that leaves the steps of the session alone
restoreSnapshotKeepsSteps(s, snapshotId) ==
    LET snapshot == At(s.timeline, findIndex(s.timeline, snapshotId))
    IN  [s EXCEPT !.isTimeTravel = TRUE,
                  !.restoring = TRUE,
                  !.currentData = snapshot.state.currentData,
                  !.currentStep = snapshot.state.currentStep,
                  !.playerState = snapshot.state.playerState,
                  !.selectedAlgorithm = snapshot.state.selectedAlgorithm,
                  !.currentSnapshotIndex = findIndex(s.timeline, snapshotId)]

\* restoreSnapshot up to the end of its try block: the guard is set
restoreSnapshot(s, snapshotId) ==
    LET snapshot == At(s.timeline, findIndex(s.timeline, snapshotId))
    IN  [s EXCEPT !.isTimeTravel = TRUE,
                  !.restoring = TRUE,
                  !.currentData = snapshot.state.currentData,
                  !.currentStep = snapshot.state.currentStep,
                  !.playerState = snapshot.state.playerState,
                  !.selectedAlgorithm = snapshot.state.selectedAlgorithm,
                  !.steps = snapshot.state.steps,
                  !.currentSnapshotIndex = findIndex(s.timeline, snapshotId)]

\* a restoreSnapshot that returns without clearing the guard
restoreSnapshotLeavesGuard(s) ==
    [s EXCEPT !.restoring = FALSE]

\* the finally block of restoreSnapshot
restoreSnapshotFinally(s) ==
    [s EXCEPT !.isTimeTravel = FALSE, !.restoring = FALSE]

\* the caller holds no export
NoBundle == [held |-> FALSE, aliased |-> FALSE, snapshots |-> <<>>, totalCount |-> 0]

\* the snapshots list of the bundle the caller holds: the timeline array
\* itself as long as the store has not replaced that array
BundleSnapshots(s) ==
    IF s.bundle.aliased THEN s.timeline ELSE s.bundle.snapshots

\* timeline.value is assigned a new array: a bundle that shared the old
\* array keeps it
Detached(s) ==
    IF s.bundle.aliased
    THEN [s EXCEPT !.bundle.aliased = FALSE, !.bundle.snapshots = s.timeline]
    ELSE s

\* clearTimeline that empties the array in place
clearTimelineInPlace(s) ==
    [s EXCEPT !.timeline = <<>>, !.currentSnapshotIndex = -1]

clearTimeline(s) ==
    [Detached(s) EXCEPT !.timeline = <<>>, !.currentSnapshotIndex = -1]

\* returns { snapshots: timeline.value, totalCount, exportTime }: the
\* list is the timeline array, not a copy; exportTime is left out
exportTimeline(s) ==
    [s EXCEPT !.bundle = [held |-> TRUE, aliased |-> TRUE, snapshots |-> <<>>,
                          totalCount |-> Len(s.timeline)]]

\* importTimeline that leaves currentSnapshotIndex where it was
importTimelineKeepsIndex(s, snapshots) ==
    [Detached(s) EXCEPT !.timeline = snapshots]

\* importTimeline of a list the caller does not keep (a parsed file)
importTimeline(s, snapshots) ==
    [Detached(s) EXCEPT !.timeline = snapshots,
                        !.currentSnapshotIndex = Len(snapshots) - 1]

\* importTimeline of the bundle the caller holds: the timeline becomes the
\* bundle's own list
importTimelineOfBundle(s) ==
    LET snapshots == BundleSnapshots(s)
    IN  [s EXCEPT !.timeline = snapshots,
                  !.currentSnapshotIndex = Len(snapshots) - 1,
                  !.bundle.aliased = TRUE,
                  !.bundle.snapshots = <<>>]

----------------------------------------------------------------------------
(* Calls on the store *)

\* data a caller may hand to setData
StoreInputs == {<<1, 2>>}

\* algorithms a caller may hand to selectAlgorithm
StoreAlgorithms == {"selection-sort"}

\* speeds a caller may hand to updatePlaybackSpeed, in tenths
StoreSpeeds == {MinSpeed - 1, 2 * SpeedUnit, MaxSpeed + 1}

\* partial configurations a caller may hand to updateConfig
NewConfigs == {[autoPlay |-> TRUE]}

\* a timeline read from a file: n snapshots of a fresh session
FileSnapshot(k) ==
    [id |-> -k, description |-> <<"file", k>>,
     state |-> [currentData |-> defaultData, currentStep |-> 0,
                playerState |-> "idle", selectedAlgorithm |-> "bubble-sort",
                steps |-> <<>>]]

FileTimeline(n) == [k \in 1..n |-> FileSnapshot(k)]

FileLengths == {maxSnapshots + 1}

\* the store becomes s, unless that takes more snapshot ids than the model
\* issues
StoreBecomes(s) ==
    /\ s.snapshotsMade <= MaxSaved
    /\ selectedAlgorithm' = s.selectedAlgorithm
    /\ originalData' = s.originalData
    /\ currentData' = s.currentData
    /\ storeSteps' = s.steps
    /\ playerState' = s.playerState
    /\ currentStep' = s.currentStep
    /\ playbackSpeed' = s.playbackSpeed
    /\ storeConfig' = s.config
    /\ timeline' = s.timeline
    /\ currentSnapshotIndex' = s.currentSnapshotIndex
    /\ isTimeTravel' = s.isTimeTravel
    /\ restoring' = s.restoring
    /\ bundle' = s.bundle
    /\ snapshotsMade' = s.snapshotsMade
    /\ UNCHANGED <<algVars, playerVars>>

\* the action returned
StoreCommit(s, op, arg) ==
    /\ ~restoring
    /\ storeCall' = [op |-> op, arg |-> arg, result |-> "ok"]
    /\ StoreBecomes(s)

\* a throw that comes after the restore guard was set
StoreThrowAfterGuard(op, arg) ==
    /\ ~restoring
    /\ storeCall' = [op |-> op, arg |-> arg, result |-> "throw"]
    /\ StoreBecomes([StoreSelf EXCEPT !.isTimeTravel = TRUE])

\* the action threw before changing anything
StoreThrow(op, arg) ==
    /\ ~restoring
    /\ storeCall' = [op |-> op, arg |-> arg, result |-> "throw"]
    /\ StoreBecomes(StoreSelf)

SetData ==
    \E data \in StoreInputs :
        IF setDataThrows(StoreSelf)
        THEN StoreThrow("setData", <<data>>)
        ELSE StoreCommit(setData(StoreSelf, data), "setData", <<data>>)

SelectAlgorithm ==
    \E algorithm \in StoreAlgorithms :
        IF selectAlgorithmThrows(StoreSelf)
        THEN StoreThrow("selectAlgorithm", <<algorithm>>)
        ELSE StoreCommit(selectAlgorithm(StoreSelf, algorithm),
                         "selectAlgorithm", <<algorithm>>)

StartSorting ==
    IF startSortingThrows(StoreSelf)
    THEN StoreThrow("startSorting", <<>>)
    ELSE StoreCommit(startSorting(StoreSelf), "startSorting", <<>>)

PausePlayback ==
    /\ ~restoring
    /\ storeCall' = [op |-> "pausePlayback", arg |-> <<>>, result |-> "ok"]
    /\ StoreBecomes(pausePlayback(StoreSelf))

ResumePlayback ==
    /\ ~restoring
    /\ storeCall' = [op |-> "resumePlayback", arg |-> <<>>, result |-> "ok"]
    /\ StoreBecomes(resumePlayback(StoreSelf))

StopPlayback ==
    /\ ~restoring
    /\ storeCall' = [op |-> "stopPlayback", arg |-> <<>>, result |-> "ok"]
    /\ StoreBecomes(stopPlayback(StoreSelf))

ResetPlayback ==
    /\ ~restoring
    /\ storeCall' = [op |-> "resetPlayback", arg |-> <<>>, result |-> "ok"]
    /\ StoreBecomes(resetPlayback(StoreSelf))

StoreJumpToStep ==
    \E stepIndex \in {-1, 1, Len(storeSteps) - 1, Len(storeSteps)} :
        IF storeJumpToStepThrows(StoreSelf, stepIndex)
        THEN StoreThrow("jumpToStep", <<stepIndex>>)
        ELSE StoreCommit(storeJumpToStep(StoreSelf, stepIndex),
                         "jumpToStep", <<stepIndex>>)

StoreNextStep ==
    IF storeNextStepThrows(StoreSelf)
    THEN StoreThrow("nextStep", <<>>)
    ELSE StoreCommit(storeNextStep(StoreSelf), "nextStep", <<>>)

StorePreviousStep ==
    IF storePreviousStepThrows(StoreSelf)
    THEN StoreThrow("previousStep", <<>>)
    ELSE StoreCommit(storePreviousStep(StoreSelf), "previousStep", <<>>)

UpdatePlaybackSpeed ==
    \E speed \in StoreSpeeds :
        /\ ~restoring
        /\ storeCall' = [op |-> "updatePlaybackSpeed", arg |-> <<speed>>,
                         result |-> "ok"]
        /\ StoreBecomes(updatePlaybackSpeed(StoreSelf, speed))

UpdateConfig ==
    \E newConfig \in NewConfigs :
        /\ ~restoring
        /\ storeCall' = [op |-> "updateConfig", arg |-> <<newConfig>>,
                         result |-> "ok"]
        /\ StoreBecomes(updateConfig(StoreSelf, newConfig))

\* saveSnapshot is public; a subscriber that runs synchronously on a state
\* change calls it from inside restoreSnapshot as well
SaveSnapshot ==
    /\ storeCall' = [op |-> "saveSnapshot", arg |-> <<>>,
                     result |-> IF restoring THEN "inside restore" ELSE "ok"]
    /\ StoreBecomes(saveSnapshot(StoreSelf, <<"saveSnapshot">>))

\* ids a caller may hand to restoreSnapshot: those in the timeline and one
\* that was never issued
SnapshotIds == {timeline[k].id : k \in DOMAIN timeline} \cup {0}

\* restoreSnapshot throws, or runs to the end of its try block
RestoreSnapshot ==
    \E snapshotId \in SnapshotIds :
        IF restoreSnapshotThrows(StoreSelf, snapshotId)
        THEN StoreThrow("restoreSnapshot", <<snapshotId>>)
        ELSE /\ ~restoring
             /\ storeCall' = [op |-> "restoreSnapshot", arg |-> <<snapshotId>>,
                              result |-> "try"]
             /\ StoreBecomes(restoreSnapshot(StoreSelf, snapshotId))

\* restoreSnapshot runs its finally block and returns
RestoreSnapshotReturns ==
    /\ restoring
    /\ storeCall' = [op |-> "restoreSnapshot", arg |-> <<At(timeline, currentSnapshotIndex).id>>,
                     result |-> "ok"]
    /\ StoreBecomes(restoreSnapshotFinally(StoreSelf))

ClearTimeline ==
    /\ ~restoring
    /\ storeCall' = [op |-> "clearTimeline", arg |-> <<>>, result |-> "ok"]
    /\ StoreBecomes(clearTimeline(StoreSelf))

ExportTimeline ==
    /\ ~restoring
    /\ storeCall' = [op |-> "exportTimeline", arg |-> <<>>, result |-> "ok"]
    /\ StoreBecomes(exportTimeline(StoreSelf))

\* the caller hands back the bundle it got from exportTimeline
ImportTimeline ==
    /\ ~restoring
    /\ bundle.held
    /\ storeCall' = [op |-> "importTimeline", arg |-> <<"bundle">>, result |-> "ok"]
    /\ StoreBecomes(importTimelineOfBundle(StoreSelf))

\* the caller hands in a timeline parsed from a file
ImportFile ==
    \E n \in FileLengths :
        /\ ~restoring
        /\ storeCall' = [op |-> "importTimeline", arg |-> <<"file", n>>,
                         result |-> "ok"]
        /\ StoreBecomes(importTimeline(StoreSelf, FileTimeline(n)))

----------------------------------------------------------------------------
(* Specifications *)

AlgIdle ==
    /\ algorithmType = "bubble-sort"
    /\ inputData = <<>>
    /\ sequenceNumber = 0
    /\ algSteps = <<>>
    /\ sortOutcome = "idle"
    /\ dateNow = 0
    /\ tickAt = 0
    /\ counter = 0
    /\ lastId = <<>>
    /\ keptId = <<>>
    /\ validatorCall = <<>>

\* useSortingVisualizationStore(): the store as defineStore sets it up
StoreNew ==
    /\ selectedAlgorithm = "bubble-sort"
    /\ originalData = defaultData
    /\ currentData = defaultData
    /\ storeSteps = <<>>
    /\ playerState = "idle"
    /\ currentStep = 0
    /\ playbackSpeed = SpeedUnit
    /\ storeConfig = [playbackSpeed |-> SpeedUnit, autoPlay |-> FALSE]
    /\ timeline = <<>>
    /\ currentSnapshotIndex = -1
    /\ isTimeTravel = FALSE
    /\ restoring = FALSE
    /\ bundle = NoBundle
    /\ snapshotsMade = 0
    /\ storeCall = [op |-> "defineStore", arg |-> <<>>, result |-> "ok"]

\* new SortingPlayer(canvas, renderConfig, playerConfig): playerConfig may
\* set autoPlay and loopMode
PlayerNew(autoPlay, loopMode) ==
    /\ steps = <<>>
    /\ currentStepIndex = 0
    /\ state = "idle"
    /\ playTimer = NoTimer
    /\ config = [autoPlay |-> autoPlay, playbackSpeed |-> DefaultPlaybackSpeed,
                 loopMode |-> loopMode]
    /\ timers = <<>>
    /\ call = [op |-> "constructor", arg |-> <<>>, result |-> "ok"]
    /\ defaultPlayerConfig = [autoPlay |-> FALSE,
                              playbackSpeed |-> DefaultPlaybackSpeed,
                              loopMode |-> FALSE]
    /\ configIsDefault = FALSE
    /\ handsOff = FALSE

\* new SortingPlayer(canvas): without a playerConfig argument this.config
\* stays the defaultPlayerConfig object; with one it is a fresh copy
PlayerNewSharing(sharing) ==
    /\ steps = <<>>
    /\ currentStepIndex = 0
    /\ state = "idle"
    /\ playTimer = NoTimer
    /\ defaultPlayerConfig = [autoPlay |-> FALSE,
                              playbackSpeed |-> DefaultPlaybackSpeed,
                              loopMode |-> FALSE]
    /\ config = defaultPlayerConfig
    /\ timers = <<>>
    /\ call = [op |-> "constructor", arg |-> <<>>, result |-> "ok"]
    /\ configIsDefault = sharing
    /\ handsOff = FALSE

\* the player
Init ==
    /\ AlgIdle
    /\ StoreNew
    /\ \E autoPlay \in BOOLEAN, loopMode \in BOOLEAN : PlayerNew(autoPlay, loopMode)

Next ==
    \/ LoadSteps
    \/ Play
    \/ Pause
    \/ Stop
    \/ Reset
    \/ NextStep
    \/ PreviousStep
    \/ JumpToStep
    \/ SetPlaybackSpeed
    \/ SetLoopMode
    \/ AdvanceFires
    \/ RestartFires

Spec == Init /\ [][Next]_vars

\* the player, left to its timers after some play() call; the window runs
\* every timeout that stays pending
Calls ==
    \/ LoadSteps
    \/ Play
    \/ Pause
    \/ Stop
    \/ Reset
    \/ NextStep
    \/ PreviousStep
    \/ JumpToStep
    \/ SetPlaybackSpeed
    \/ SetLoopMode

HandsOffNext ==
    \/ ~handsOff /\ Calls
    \/ Leave
    \/ AdvanceFires
    \/ RestartFires

HandsOffSpec ==
    /\ Init
    /\ [][HandsOffNext]_vars
    /\ WF_vars(AdvanceFires)
    /\ WF_vars(RestartFires)

\* the player and its release by cleanup()
CleanupNext ==
    \/ LoadSteps
    \/ Play
    \/ Cleanup
    \/ AdvanceFires
    \/ RestartFires

CleanupSpec == Init /\ [][CleanupNext]_vars

\* players made with and without a playerConfig argument, and their settings
ConfigInit ==
    /\ AlgIdle
    /\ StoreNew
    /\ \E sharing \in BOOLEAN : PlayerNewSharing(sharing)

ConfigNext ==
    \/ LoadSteps
    \/ Play
    \/ SetPlaybackSpeed
    \/ SetLoopMode
    \/ AdvanceFires
    \/ RestartFires

ConfigSpec == ConfigInit /\ [][ConfigNext]_vars

\* the player under speed changes at the limits of the range
SpeedNext ==
    \/ LoadSteps
    \/ Play
    \/ Pause
    \/ Reset
    \/ SetPlaybackSpeedAtLimits
    \/ AdvanceFires

SpeedSpec == Init /\ [][SpeedNext]_vars

\* the store: the session and the snapshots it saves and restores
StoreInit ==
    /\ AlgIdle
    /\ PlayerNew(FALSE, FALSE)
    /\ StoreNew

StoreNext ==
    \/ SetData
    \/ SelectAlgorithm
    \/ StartSorting
    \/ PausePlayback
    \/ ResumePlayback
    \/ StopPlayback
    \/ ResetPlayback
    \/ StoreJumpToStep
    \/ StoreNextStep
    \/ StorePreviousStep
    \/ SaveSnapshot
    \/ RestoreSnapshot
    \/ RestoreSnapshotReturns

StoreSpec == StoreInit /\ [][StoreNext]_vars

\* the store: the timeline under export, clear and import
TimelineNext ==
    \/ StartSorting
    \/ PausePlayback
    \/ ResumePlayback
    \/ SaveSnapshot
    \/ RestoreSnapshot
    \/ RestoreSnapshotReturns
    \/ ClearTimeline
    \/ ExportTimeline
    \/ ImportTimeline
    \/ ImportFile

TimelineSpec == StoreInit /\ [][TimelineNext]_vars

\* the store: speed and configuration changes
SettingsNext ==
    \/ StartSorting
    \/ PausePlayback
    \/ ResumePlayback
    \/ UpdatePlaybackSpeed
    \/ UpdateConfig
    \/ RestoreSnapshot
    \/ RestoreSnapshotReturns

SettingsSpec == StoreInit /\ [][SettingsNext]_vars

\* the store: every action that saves a snapshot, and the calls that
\* save none
SavesNext ==
    \/ SetData
    \/ SelectAlgorithm
    \/ StartSorting
    \/ PausePlayback
    \/ ResumePlayback
    \/ StopPlayback
    \/ StoreJumpToStep
    \/ StoreNextStep
    \/ StorePreviousStep
    \/ UpdatePlaybackSpeed

SavesSpec == StoreInit /\ [][SavesNext]_vars

\* jumpToStep of the player and of the store
JumpNext ==
    \/ LoadSteps
    \/ Play
    \/ Pause
    \/ JumpToStep
    \/ StartSorting
    \/ PausePlayback
    \/ StoreJumpToStep

JumpSpec == StoreInit /\ [][JumpNext]_vars

\* the step generators
MaxTick == 2

SortInit ==
    /\ algorithmType \in Algorithms
    /\ inputData \in Inputs
    /\ sequenceNumber = 0
    /\ algSteps = <<>>
    /\ sortOutcome = "new"
    /\ dateNow = 0
    /\ tickAt \in 0..MaxTick
    /\ counter = 0
    /\ lastId = <<>>
    /\ keptId = <<>>
    /\ validatorCall = <<>>
    /\ PlayerNew(FALSE, FALSE)
    /\ StoreNew

SortNext ==
    \/ SortThrows
    \/ BubbleSortCall
    \/ SelectionSortCall
    \/ InsertionSortCall

SortSpec == SortInit /\ [][SortNext]_vars

\* the step generators and the id generator they are built on, each on its own
IdInit ==
    /\ algorithmType \in Algorithms
    /\ inputData = <<>>
    /\ sequenceNumber = 0
    /\ algSteps = <<>>
    /\ sortOutcome = "idle"
    /\ dateNow = 0
    /\ tickAt = 0
    /\ counter = 0
    /\ lastId = <<>>
    /\ keptId = <<>>
    /\ validatorCall = <<>>
    /\ PlayerNew(FALSE, FALSE)
    /\ StoreNew

IdNext ==
    \/ SortThrows
    \/ BubbleSortCall
    \/ SelectionSortCall
    \/ InsertionSortCall
    \/ StepIdGeneratorCall

IdSpec == (SortInit \/ IdInit) /\ [][IdNext]_vars

\* the validator, handed step lists of every shape
ValidatorNext == ValidateStepSequence

ValidatorSpec == IdInit /\ [][ValidatorNext]_vars

----------------------------------------------------------------------------
(* Properties of the step generators *)

IsSorted(d) == \A k \in 1..(Len(d) - 1) : d[k] <= d[k + 1]

Count(d, v) == Cardinality({k \in DOMAIN d : d[k] = v})

IsPermutation(d, e) ==
    /\ Len(d) = Len(e)
    /\ \A v \in {d[k] : k \in DOMAIN d} \cup {e[k] : k \in DOMAIN e} :
           Count(d, v) = Count(e, v)

FinalData == algSteps[Len(algSteps)].arrayState.data

\* C1: for each of the three algorithms and every non-empty input, the data
\* of the last step returned by sort() is in non-decreasing order and is a
\* permutation of the input.
C1_FinalStepSorted ==
    sortOutcome = "returned" =>
        /\ Len(algSteps) > 0
        /\ IsSorted(FinalData)
        /\ IsPermutation(FinalData, inputData)

\* an input with a duplicate and an inversion has been sorted
C1_Witness ==
    /\ sortOutcome = "returned"
    /\ inputData = <<3, 1, 3>>
    /\ FinalData = <<1, 3, 3>>

----------------------------------------------------------------------------
(* Properties of the player *)

Advances(ts) == {k \in DOMAIN ts : ts[k].kind = "advance"}

playerFields == <<steps, currentStepIndex, state, playTimer, config, timers>>

\* C2: in every reachable state at most one scheduled advance is pending.
C2_AtMostOneAdvance == Cardinality(Advances(timers)) <= 1

\* C3: with steps loaded, state Completed implies that currentStepIndex is
\* the last index.
C3_CompletedAtLastIndex ==
    (Len(steps) > 0 /\ state = "completed") =>
        currentStepIndex = Len(steps) - 1

\* C4: once a non-empty list is loaded, currentStepIndex stays within
\* [0, steps.length - 1].
C4_IndexInRange ==
    Len(steps) > 0 => currentStepIndex \in 0..(Len(steps) - 1)

\* the timer has driven the player to the last step of a longer list
C4_Witness ==
    /\ Len(steps) > 1
    /\ currentStepIndex = Len(steps) - 1
    /\ call.op = "advance"

\* C5: when stop() returns the player is Idle at index 0 and nothing is
\* pending that could change state or index before the next call.
C5_StopLeavesNothingPending ==
    call.op = "stop" =>
        /\ state = "idle"
        /\ currentStepIndex = 0
        /\ timers = <<>>

\* C6: pause() while Playing sets Paused, leaves the index alone and leaves
\* no advance pending; pause() in any other state changes nothing.
C6_Pause ==
    [][call'.op = "pause" =>
          IF state = "playing"
          THEN /\ state' = "paused"
               /\ currentStepIndex' = currentStepIndex
               /\ Advances(timers') = {}
          ELSE UNCHANGED playerFields]_vars

\* C7: on a player with steps loaded, play() moves Idle or Paused to Playing and schedules one advance;
\* while Playing it changes nothing; from Completed it moves to Playing
\* only in loop mode and otherwise leaves the state Completed.
C7_Play ==
    [][(call'.op = "play" /\ Len(steps) > 0) =>
          CASE state \in {"idle", "paused"} ->
                   /\ state' = "playing"
                   /\ Cardinality(Advances(timers')) =
                          Cardinality(Advances(timers)) + 1
            [] state = "playing" -> UNCHANGED playerFields
            [] state = "completed" ->
                   state' = IF config.loopMode THEN "playing" ELSE "completed"]_vars

\* C8: while Playing with steps loaded, nextStep(), previousStep() and jumpToStep(i) fail and
\* leave index, state and the pending advance unchanged.
C8_NavigationRejectedWhilePlaying ==
    [][(state = "playing" /\ Len(steps) > 0
          /\ call'.op \in {"nextStep", "previousStep", "jumpToStep"}) =>
          /\ call'.result = "throw"
          /\ UNCHANGED <<currentStepIndex, state, playTimer, timers>>]_vars

\* C9: loadSteps while Playing fails and leaves the step list, index, state
\* and the pending advance unchanged.
C9_LoadRejectedWhilePlaying ==
    [][(state = "playing" /\ call'.op = "loadSteps") =>
          /\ call'.result = "throw"
          /\ UNCHANGED <<steps, currentStepIndex, state, playTimer, timers>>]_vars

\* C10: loadSteps with a non-empty list while not Playing replaces the list
\* and sets the index to 0; without autoPlay it ends Idle with no advance
\* scheduled, with autoPlay it ends Playing with exactly one advance.
C10_LoadSteps ==
    [][(state # "playing" /\ call'.op = "loadSteps" /\ call'.arg # <<<<>>>>) =>
          /\ steps' = call'.arg[1]
          /\ currentStepIndex' = 0
          /\ IF config.autoPlay
             THEN state' = "playing" /\ Cardinality(Advances(timers')) = 1
             ELSE state' = "idle" /\ Advances(timers') = {}]_vars

\* C11: on a player that is not Playing, nextStep() below the last index
\* adds one to currentStepIndex; at the last index it leaves the index,
\* sets Completed and does not throw; previousStep() at index 0 changes
\* nothing and above 0 subtracts one.
C11_StepNavigation ==
    [][state # "playing" =>
          /\ call'.op = "nextStep" =>
                /\ call'.result = "ok"
                /\ currentStepIndex < Len(steps) - 1 =>
                       currentStepIndex' = currentStepIndex + 1
                /\ currentStepIndex = Len(steps) - 1 =>
                       currentStepIndex' = currentStepIndex /\ state' = "completed"
          /\ call'.op = "previousStep" =>
                /\ call'.result = "ok"
                /\ currentStepIndex = 0 => UNCHANGED playerFields
                /\ currentStepIndex > 0 =>
                       currentStepIndex' = currentStepIndex - 1]_vars

\* nextStep() on a paused player at the last step of a longer list has
\* completed it
C11_Witness ==
    /\ call.op = "nextStep"
    /\ state = "completed"
    /\ Len(steps) > 1
    /\ currentStepIndex = Len(steps) - 1
    /\ timers = <<>>

\* C12: setPlaybackSpeed(x) with x in range, called while Playing, cancels
\* the advance held in playTimer and schedules exactly one new advance with
\* the delay of the new speed; the call leaves currentStepIndex alone, and
\* an advance that comes due while Playing below the last index moves the
\* index by exactly one.
C12_SpeedChangeReschedules ==
    [][state = "playing" =>
          /\ (call'.op = "setPlaybackSpeed" /\ call'.result = "ok") =>
                /\ currentStepIndex' = currentStepIndex
                /\ state' = "playing"
                /\ playTimer \in 1..Len(timers)
                /\ timers' = Without(Self, playTimer, NoTimer).timers \o
                       <<[kind |-> "advance",
                          delay |-> (baseDelay * SpeedUnit) \div call'.arg[1]]>>
                /\ playTimer' = Len(timers')
          /\ (call'.op = "advance" /\ currentStepIndex < Len(steps) - 1) =>
                currentStepIndex' = currentStepIndex + 1]_vars

\* the speed was doubled while playing a list of several steps: the one
\* pending advance has half the default delay
C12_Witness ==
    /\ call = [op |-> "setPlaybackSpeed", arg |-> <<2 * SpeedUnit>>, result |-> "ok"]
    /\ state = "playing"
    /\ Len(steps) > 1
    /\ timers = <<[kind |-> "advance", delay |-> baseDelay \div 2]>>
    /\ playTimer = 1

C14_CompletionAndLoop ==
    [][/\ (state = "playing" /\ call'.op = "advance"
              /\ currentStepIndex = Len(steps) - 1) =>
             /\ state' = "completed"
             /\ currentStepIndex' = currentStepIndex
             /\ IF config.loopMode
                THEN Advances(timers') = {}
                ELSE timers' = <<>>
       /\ (state = "completed" /\ call.op = "advance" /\ call'.op = "restart") =>
             /\ state' = "playing"
             /\ currentStepIndex' = 0
             /\ Cardinality(Advances(timers')) = 1]_vars

----------------------------------------------------------------------------
(* Properties of the store *)

storeSession == <<selectedAlgorithm, originalData, currentData, storeSteps,
                  playerState, currentStep>>

C16_TimelineBounded == Len(timeline) <= maxSnapshots

\* a snapshot was saved in this step
Saved == snapshotsMade' = snapshotsMade + 1

C19_ExportClearImport ==
    ~restoring =>
        LET exported == exportTimeline(StoreSelf)
            cleared  == clearTimeline(exported)
            imported == importTimelineOfBundle(cleared)
        IN  /\ clearTimeline(StoreSelf).timeline = <<>>
            /\ clearTimeline(StoreSelf).currentSnapshotIndex = -1
            /\ cleared.timeline = <<>>
            /\ cleared.currentSnapshotIndex = -1
            /\ Len(imported.timeline) = Len(timeline)
            /\ Len(imported.timeline) = imported.bundle.totalCount
            /\ \A k \in DOMAIN timeline :
                   /\ imported.timeline[k].description = timeline[k].description
                   /\ imported.timeline[k].state = timeline[k].state

\* a full timeline has come back from the bundle after a clear
C19_Witness ==
    /\ storeCall = [op |-> "importTimeline", arg |-> <<"bundle">>, result |-> "ok"]
    /\ Len(timeline) = maxSnapshots
    /\ bundle.totalCount = maxSnapshots
    /\ timeline[1].state.playerState = "playing"
    /\ currentSnapshotIndex = maxSnapshots - 1

\* C20: while isTimeTravel is set no snapshot is added to the timeline, and
\* isTimeTravel is false whenever a store action, restoreSnapshot included,
\* has returned or thrown.
C20_RestoreGuard ==
    [][/\ isTimeTravel => timeline' = timeline
       /\ storeCall'.result \in {"ok", "throw"} => ~isTimeTravel']_vars

\* saveSnapshot was called from inside restoreSnapshot and added nothing
C20_Witness ==
    /\ storeCall.op = "saveSnapshot"
    /\ storeCall.result = "inside restore"
    /\ isTimeTravel
    /\ Len(timeline) > 0
    /\ snapshotsMade = Len(timeline)

\* C21: restoreSnapshot(id) with an id that is not in the timeline fails
\* and leaves selectedAlgorithm, currentData, currentStep, playerState,
\* steps, the timeline, currentSnapshotIndex and isTimeTravel unchanged.
C21_RestoreNotFound ==
    [][(/\ storeCall'.op = "restoreSnapshot"
        /\ \A k \in DOMAIN timeline : timeline[k].id # storeCall'.arg[1]) =>
          /\ storeCall'.result = "throw"
          /\ UNCHANGED <<selectedAlgorithm, currentData, currentStep,
                         playerState, storeSteps, timeline,
                         currentSnapshotIndex, isTimeTravel>>]_vars

\* an id that was never issued has been refused by a paused store with a
\* full timeline
C21_Witness ==
    /\ storeCall = [op |-> "restoreSnapshot", arg |-> <<0>>, result |-> "throw"]
    /\ Len(timeline) = maxSnapshots
    /\ playerState = "paused"
    /\ Len(storeSteps) > 0
    /\ ~isTimeTravel

\* the session as a snapshot taken after this step holds it
CapturedAfter ==
    [currentData |-> currentData', currentStep |-> currentStep',
     playerState |-> playerState', selectedAlgorithm |-> selectedAlgorithm',
     steps |-> storeSteps']

\* this step added exactly one snapshot, of the session after the step, at
\* the end of the timeline; the earlier entries stay, but for the oldest
\* of a full timeline
AppendedOne ==
    /\ Saved
    /\ Len(timeline') = IF Len(timeline) < maxSnapshots
                        THEN Len(timeline) + 1 ELSE Len(timeline)
    /\ SubSeq(timeline', 1, Len(timeline') - 1) =
           IF Len(timeline) < maxSnapshots THEN timeline ELSE Tail(timeline)
    /\ timeline'[Len(timeline')].id = snapshotsMade'
    /\ timeline'[Len(timeline')].state = CapturedAfter

AppendedNone == timeline' = timeline /\ snapshotsMade' = snapshotsMade

\* C22: with no restore in progress each successful setData,
\* selectAlgorithm, startSorting, pausePlayback from playing,
\* resumePlayback from paused, stopPlayback, jumpToStep and
\* updatePlaybackSpeed appends exactly one snapshot of the session as the
\* call left it; a call that throws, pausePlayback when not playing,
\* resumePlayback when not paused, nextStep at the last index and
\* previousStep at index 0 append none.
C22_OneSnapshotPerChange ==
    [][~isTimeTravel =>
          /\ (/\ storeCall'.result = "ok"
              /\ storeCall'.op \in {"setData", "selectAlgorithm", "startSorting",
                                    "stopPlayback", "jumpToStep",
                                    "updatePlaybackSpeed"}) => AppendedOne
          /\ storeCall'.op = "pausePlayback" =>
                IF playerState = "playing" THEN AppendedOne ELSE AppendedNone
          /\ storeCall'.op = "resumePlayback" =>
                IF playerState = "paused" THEN AppendedOne ELSE AppendedNone
          /\ storeCall'.result = "throw" => AppendedNone
          /\ (storeCall'.op = "nextStep" /\ storeCall'.result = "ok"
                /\ currentStep >= Len(storeSteps) - 1) => AppendedNone
          /\ (storeCall'.op = "previousStep" /\ storeCall'.result = "ok"
                /\ currentStep <= 0) => AppendedNone]_vars

\* a jump to the last step has added its snapshot to a full timeline, and
\* the nextStep() that followed has added none
C22_Witness ==
    /\ storeCall = [op |-> "nextStep", arg |-> <<>>, result |-> "ok"]
    /\ Len(storeSteps) > 1
    /\ currentStep = Len(storeSteps) - 1
    /\ Len(timeline) = maxSnapshots
    /\ timeline[maxSnapshots].id = snapshotsMade
    /\ timeline[maxSnapshots].description = <<"jumpToStep", Len(storeSteps)>>
    /\ timeline[maxSnapshots].state.currentStep = currentStep

\* C23: setData and selectAlgorithm called while playerState is playing throw
\* and leave originalData, currentData, selectedAlgorithm, steps, currentStep,
\* playerState and the timeline unchanged; called in any other state they set
\* playerState to idle, currentStep to 0, steps to empty and currentData to
\* originalData.
C23_DataAndAlgorithmChange ==
    [][storeCall'.op \in {"setData", "selectAlgorithm"} =>
         IF playerState = "playing"
         THEN /\ storeCall'.result = "throw"
              /\ UNCHANGED <<originalData, currentData, selectedAlgorithm,
                             storeSteps, currentStep, playerState, timeline>>
         ELSE /\ storeCall'.result = "ok"
              /\ playerState' = "idle"
              /\ currentStep' = 0
              /\ storeSteps' = <<>>
              /\ currentData' = originalData'
              /\ storeCall'.op = "setData" => originalData' = storeCall'.arg[1]
              /\ storeCall'.op = "selectAlgorithm" =>
                     /\ selectedAlgorithm' = storeCall'.arg[1]
                     /\ originalData' = originalData]_vars

\* selectAlgorithm has reset a session whose last snapshot before the call
\* was that of a paused run with steps
C23_Witness ==
    /\ storeCall.op = "selectAlgorithm"
    /\ storeCall.result = "ok"
    /\ playerState = "idle"
    /\ storeSteps = <<>>
    /\ currentData = originalData
    /\ Len(timeline) = maxSnapshots
    /\ timeline[maxSnapshots].description[1] = "selectAlgorithm"
    /\ timeline[maxSnapshots - 1].description[1] = "pausePlayback"
    /\ Len(timeline[maxSnapshots - 1].state.steps) > 0

\* C24: in every step list returned by one sort() call on a fresh instance
\* the step at 0-based position i has sequenceNumber i+1 and no two steps
\* share a stepId; successive calls of one createStepIdGenerator closure never
\* return the same id.
C24_SequenceAndIds ==
    /\ [](sortOutcome = "returned" =>
            /\ \A i \in DOMAIN algSteps : algSteps[i].sequenceNumber = i
            /\ \A i, j \in DOMAIN algSteps :
                   i # j => algSteps[i].stepId # algSteps[j].stepId)
    /\ [][counter' # counter =>
            /\ lastId' # lastId
            /\ lastId' # keptId'
            /\ lastId' # keptId]_vars

\* the closure has been called sixteen times or more, and the caller holds an
\* earlier id that carries the same time stamp as the latest one
C24_Witness ==
    /\ keptId # <<>>
    /\ lastId[Len(lastId) - 1] = "1"
    /\ SubSeq(lastId, 1, Len(lastId) - 4) = SubSeq(keptId, 1, Len(keptId) - 4)

\* C25: sort() / generateSteps on an empty input fails with an error for all
\* three algorithms, and fails before any step is created: the instance's step
\* list stays empty and its sequence counter stays 0.
C25_EmptyInputFails ==
    (Len(inputData) = 0 /\ sortOutcome \notin {"new", "idle"}) =>
        /\ sortOutcome = "thrown"
        /\ algSteps = <<>>
        /\ sequenceNumber = 0

\* sort() has thrown on an instance made for the empty array
C25_Witness ==
    /\ sortOutcome = "thrown"
    /\ inputData = <<>>
    /\ algorithmType = "insertion-sort"
    /\ algSteps = <<>>

\* the indices a step refers to
StepIndices(step) ==
    LET as == step.arrayState
    IN  {as.highlightedIndices[k] : k \in DOMAIN as.highlightedIndices}
          \cup {as.comparisonPair[k] : k \in DOMAIN as.comparisonPair}
          \cup {as.swapPair[k] : k \in DOMAIN as.swapPair}
          \cup {as.sortedRegions[k].start : k \in DOMAIN as.sortedRegions}
          \cup {as.sortedRegions[k].end : k \in DOMAIN as.sortedRegions}

\* C26: in every generated step of all three algorithms, every index in
\* highlightedIndices, comparisonPair and swapPair and every sortedRegions
\* start and end lies in [0, data.length), each region has start <= end, and
\* the sortedRegions of one step do not overlap.
C26_IndicesAndRegions ==
    sortOutcome = "returned" =>
        \A i \in DOMAIN algSteps :
            LET regions == algSteps[i].arrayState.sortedRegions
            IN  /\ \A x \in StepIndices(algSteps[i]) :
                       0 <= x /\ x < Len(inputData)
                /\ \A k \in DOMAIN regions : regions[k].start <= regions[k].end
                /\ \A k, l \in DOMAIN regions :
                       k # l => \/ regions[k].end < regions[l].start
                                \/ regions[l].end < regions[k].start

\* a returned list holds a swap step that carries a sorted region and refers
\* to the last element of the array
C26_Witness ==
    /\ sortOutcome = "returned"
    /\ Len(inputData) > 2
    /\ \E i \in DOMAIN algSteps :
           /\ algSteps[i].arrayState.swapPair # None
           /\ algSteps[i].arrayState.sortedRegions # <<>>
           /\ Len(inputData) - 1 \in StepIndices(algSteps[i])

\* the sequenceNumbers of the list, in list order, are 1, 2, ..., N
RunsOneToN(list) ==
    [i \in DOMAIN list |-> list[i].sequenceNumber] = [i \in DOMAIN list |-> i]

DistinctStepIds(list) ==
    \A i, j \in DOMAIN list : i # j => list[i].stepId # list[j].stepId

\* C27 as stated: validateStepSequence(steps) returns true exactly when the
\* steps' sequenceNumbers run 1..N in list order with no gaps or duplicates
\* and all stepIds are distinct, and returns false (never throws) for every
\* other step list.
C27_AsStated ==
    validatorCall # <<>> =>
        /\ validatorCall.result \in BOOLEAN
        /\ validatorCall.result <=>
               /\ RunsOneToN(validatorCall.arg[1])
               /\ DistinctStepIds(validatorCall.arg[1])

\* C27, amended: validateStepSequence(steps) returns true exactly when the
\* list is not empty, its sequenceNumbers run 1..N in list order and all its
\* stepIds are distinct; it returns false, and never throws, for every other
\* list, the empty one included.
C27_ValidateStepSequence ==
    validatorCall # <<>> =>
        /\ validatorCall.result \in BOOLEAN
        /\ validatorCall.result <=>
               /\ Len(validatorCall.arg[1]) > 0
               /\ RunsOneToN(validatorCall.arg[1])
               /\ DistinctStepIds(validatorCall.arg[1])

\* the validator has turned down a list of the longest kind whose numbers run
\* 1..N but whose first and last step share an id
C27_Witness ==
    /\ validatorCall # <<>>
    /\ ~validatorCall.result
    /\ Len(validatorCall.arg[1]) = MaxSteps
    /\ RunsOneToN(validatorCall.arg[1])
    /\ validatorCall.arg[1][1].stepId = validatorCall.arg[1][MaxSteps].stepId

\* C28: in the store, nextStep, previousStep and jumpToStep called while
\* playerState is playing always fail with an error, at every current index
\* including the first and the last, and leave currentStep, currentData,
\* playerState and the timeline unchanged.
C28_StoreNavigationWhilePlaying ==
    [][(/\ storeCall'.op \in {"nextStep", "previousStep", "jumpToStep"}
        /\ playerState = "playing") =>
          /\ storeCall'.result = "throw"
          /\ UNCHANGED <<currentStep, currentData, playerState, timeline>>]_vars

\* C29: restoreSnapshot invoked while the session's playerState is playing is
\* rejected with a state-conflict error and leaves the session and the
\* timeline unchanged.
C29_RestoreWhilePlaying ==
    [][(/\ storeCall'.op = "restoreSnapshot"
        /\ ~restoring
        /\ playerState = "playing") =>
          /\ storeCall'.result = "throw"
          /\ UNCHANGED <<selectedAlgorithm, currentData, currentStep,
                         playerState, storeSteps, timeline,
                         currentSnapshotIndex, isTimeTravel>>]_vars

\* the positions of the steps that show a comparison of two elements
ComparisonSteps == {k \in DOMAIN algSteps : algSteps[k].arrayState.comparisonPair # None}

SwapSteps == {k \in DOMAIN algSteps : algSteps[k].arrayState.swapPair # None}

\* the positions of the steps that close a pass or a round
PassSteps == {k \in DOMAIN algSteps : algSteps[k].operation.time \in {"O(n)", "O(i)"}}

CompletionSteps == {k \in DOMAIN algSteps : algSteps[k].operation.time = "O(n2)"}

StepData(k) == algSteps[k].arrayState.data

StepCompares(k) == algSteps[k].arrayState.comparisonPair

StepSwaps(k) == algSteps[k].arrayState.swapPair

\* C31: no swap or shift is ever performed on a pair of equal values: in
\* Bubble a swap step follows a compare step exactly when data[j] > data[j+1],
\* in Selection the minimum candidate is replaced only by a strictly smaller
\* value and a swap step is emitted exactly when the minimum's index differs
\* from the current position, and in Insertion an element is shifted only when
\* it is strictly greater than the key; every swap step's swapPair holds two
\* positions with different values.
C31_EqualValuesStay ==
    sortOutcome = "returned" =>
        /\ \A k \in SwapSteps :
               /\ StepSwaps(k)[1] # StepSwaps(k)[2]
               /\ At(StepData(k), StepSwaps(k)[1]) # At(StepData(k), StepSwaps(k)[2])
        /\ algorithmType = "bubble-sort" =>
               \A k \in ComparisonSteps :
                   (k + 1 \in SwapSteps /\ StepSwaps(k + 1) = StepCompares(k))
                       <=> At(StepData(k), StepCompares(k)[1])
                               > At(StepData(k), StepCompares(k)[2])
        /\ algorithmType = "selection-sort" =>
               /\ \A k \in ComparisonSteps :
                      \* the step after a comparison names a new minimum
                      (algSteps[k + 1].arrayState.highlightedIndices
                           = <<StepCompares(k)[2]>>
                       /\ k + 1 \notin PassSteps)
                          <=> At(StepData(k), StepCompares(k)[2])
                                  < At(StepData(k), StepCompares(k)[1])
               /\ \A k \in PassSteps :
                      \* the pass that ends at k fixed position i
                      LET i == algSteps[k].arrayState.highlightedIndices[1]
                      IN  k - 1 \in SwapSteps
                              <=> At(StepData(k - 1), i) # At(StepData(k), i)
               /\ \A k \in SwapSteps :
                      At(StepData(k), StepSwaps(k)[2]) < At(StepData(k), StepSwaps(k)[1])
        /\ algorithmType = "insertion-sort" =>
               /\ SwapSteps = {}
               /\ \A k \in ComparisonSteps :
                      \* round i moves the key inputData[i] to the left
                      LET i == algSteps[k].arrayState.sortedRegions[1].end
                          j == StepCompares(k)[1]
                      IN  /\ At(StepData(k), j) > At(inputData, i)
                          /\ algSteps[k + 1].operation.type = "insert"
                          /\ StepData(k + 1) = Put(StepData(k), j + 1, At(StepData(k), j))
               /\ \A k \in DOMAIN algSteps :
                      \* only a shift or the insertion of the key changes data
                      (k > 1 /\ StepData(k) # StepData(k - 1)) =>
                          algSteps[k].operation.type = "insert"

\* bubble sort has compared two equal neighbours without swapping them, and
\* has swapped another pair in the same run
C31_Witness ==
    /\ sortOutcome = "returned"
    /\ algorithmType = "bubble-sort"
    /\ SwapSteps # {}
    /\ \E k \in ComparisonSteps :
           /\ At(StepData(k), StepCompares(k)[1]) = At(StepData(k), StepCompares(k)[2])
           /\ k + 1 \notin SwapSteps

\* C32: with loop mode disabled, once play() is called on a player with N
\* loaded steps at index k and no further calls are made, the timer advances
\* visit indices k+1, ..., N-1 each exactly once in increasing order and the
\* player eventually reaches Completed, after which no timer is pending and
\* the state never changes.
C32_PlaysToCompletion ==
    /\ [][handsOff =>
            /\ currentStepIndex' \in {currentStepIndex, currentStepIndex + 1}
            /\ currentStepIndex' # currentStepIndex => call'.op = "advance"
            /\ state = "completed" => state' = "completed"]_vars
    /\ [](handsOff /\ state = "completed" => timers = <<>>)
    /\ handsOff ~> (state = "completed")

\* C33: a timer-driven advance never changes currentStepIndex or state while
\* the player is Idle or Paused: when reset() or loadSteps() is called while
\* Playing and leaves the player Idle, the index stays at 0 until the caller's
\* next call.
C33_NoAdvanceWhileIdleOrPaused ==
    [][(call'.op = "advance" /\ state \in {"idle", "paused"}) =>
           UNCHANGED <<currentStepIndex, state>>]_vars

\* C34: after cleanup() the player is Idle with an empty step list and no
\* pending timer of any kind, and its state never changes again without a new
\* call, including when cleanup() is called during the loop-restart delay that
\* follows completion in loop mode.
C34_CleanupLeavesNothing ==
    /\ [](call.op = "cleanup" =>
            /\ state = "idle"
            /\ steps = <<>>
            /\ playTimer = NoTimer
            /\ timers = <<>>)
    /\ [][(state = "idle" /\ steps = <<>> /\ call'.op \in {"advance", "restart"})
              => state' = state]_vars

\* the config of any other player made without a playerConfig argument: the
\* defaultPlayerConfig object
OtherPlayerConfig == defaultPlayerConfig

\* C35: setPlaybackSpeed or setLoopMode on one SortingPlayer changes neither
\* the playback speed or loop mode of any other SortingPlayer instance nor
\* defaultPlayerConfig, including for players constructed without a
\* playerConfig argument.
C35_SettingsStayWithThePlayer ==
    [][call'.op \in {"setPlaybackSpeed", "setLoopMode"} =>
           /\ defaultPlayerConfig' = defaultPlayerConfig
           /\ OtherPlayerConfig' = OtherPlayerConfig]_vars

\* C36: in every generated step of all three algorithms, the elements of
\* arrayState.data inside each sortedRegions interval are in non-decreasing
\* order.
C36_SortedRegionsAreSorted ==
    sortOutcome = "returned" =>
        \A k \in DOMAIN algSteps :
            \A r \in DOMAIN algSteps[k].arrayState.sortedRegions :
                LET region == algSteps[k].arrayState.sortedRegions[r]
                IN  \A x \in region.start..(region.end - 1) :
                        At(StepData(k), x) <= At(StepData(k), x + 1)

\* the shift steps of insertion sort: an insert step that follows a comparison
ShiftSteps == {k \in DOMAIN algSteps : k - 1 \in ComparisonSteps
                                        /\ algSteps[k].operation.type = "insert"}

\* C37 as stated: in every generated step of all three algorithms, not only
\* the last one, arrayState.data is a permutation of the input: no value is
\* duplicated or missing in any intermediate step.
C37_AsStated ==
    sortOutcome = "returned" =>
        \A k \in DOMAIN algSteps : IsPermutation(StepData(k), inputData)

\* the steps of insertion sort that show the array while the key of the round
\* is taken out: the shift steps and the comparisons that follow a shift
KeyOutSteps == ShiftSteps \cup {k \in ComparisonSteps : k - 1 \in ShiftSteps}

\* the 0-based index the key is missing from in such a step: the left one of
\* the two places that hold the value shifted last
Hole(k) ==
    IF k \in ShiftSteps THEN algSteps[k].arrayState.highlightedIndices[1] - 1
    ELSE StepCompares(k)[2]

\* C37, amended: in every generated step of Bubble and Selection, and in
\* every step of Insertion made while the key of the round is in the array,
\* arrayState.data is a permutation of the input; the steps Insertion makes
\* between the first shift of a round and the insertion of its key (the shift
\* steps and the comparisons that follow a shift) show the value shifted last
\* in two neighbouring places and the key nowhere, and are a permutation of
\* the input once the key is put at the left one of the two.
C37_StepsArePermutations ==
    sortOutcome = "returned" =>
        /\ algorithmType # "insertion-sort" => KeyOutSteps = {}
        /\ \A k \in DOMAIN algSteps \ KeyOutSteps :
               IsPermutation(StepData(k), inputData)
        /\ \A k \in KeyOutSteps :
               LET key == At(inputData, algSteps[k].arrayState.sortedRegions[1].end)
               IN  /\ At(StepData(k), Hole(k)) = At(StepData(k), Hole(k) + 1)
                   /\ IsPermutation(Put(StepData(k), Hole(k), key), inputData)

\* insertion sort has shifted two values past a key in one round
C37_Witness ==
    /\ sortOutcome = "returned"
    /\ algorithmType = "insertion-sort"
    /\ \E k \in ShiftSteps : k + 2 \in ShiftSteps

----------------------------------------------------------------------------
\* C38: after any sequence of store operations currentSnapshotIndex is -1
\* when the timeline is empty and otherwise lies in 0..timeline.length-1;
\* right after a snapshot is saved and right after importTimeline it is
\* timeline.length-1.
C38_SnapshotIndexInRange ==
    /\ [](IF timeline = <<>> THEN currentSnapshotIndex = -1
          ELSE currentSnapshotIndex \in 0..(Len(timeline) - 1))
    /\ [][(Saved \/ storeCall'.op = "importTimeline") =>
              currentSnapshotIndex' = Len(timeline') - 1]_vars

\* a file was imported after the store had evicted a snapshot of its own,
\* and the index points at the last entry of the imported list
C38_Witness ==
    /\ storeCall.op = "importTimeline"
    /\ storeCall.arg[1] = "file"
    /\ timeline # <<>>
    /\ currentSnapshotIndex = Len(timeline) - 1
    /\ snapshotsMade > maxSnapshots

----------------------------------------------------------------------------
\* C39: the bundle returned by exportTimeline is unaffected by later store
\* operations: after further saves its snapshots list still holds exactly
\* totalCount entries, those present at export time.
C39_BundleUnaffected ==
    bundle.held => Len(BundleSnapshots(StoreSelf)) = bundle.totalCount

----------------------------------------------------------------------------
\* C40: after any sequence of store actions, restoreSnapshot of the store's
\* own snapshots included, a non-empty steps list is the one generated from
\* the current originalData: its first step shows originalData, the data
\* stopPlayback resets currentData to.
C40_StepsSortOriginalData ==
    (~restoring /\ storeSteps # <<>>) =>
        storeSteps[1].arrayState.data = originalData

====
